---- MODULE Spec2Model ----
(***************************************************************************)
(* The database layer of the mod launcher (src/app.py): the sqlite table   *)
(* "mods", its schema migration, the CRUD statements and the two queries,  *)
(* and the handlers of MainWindow that call them.                          *)
(* Text values are sequences of one-character strings, so that strip(),    *)
(* LOWER(), TRIM(), LIKE and the collations are computed character by      *)
(* character.  The characters are ASCII: a tab, a space, '%', '_' and the  *)
(* letters.                                                                *)
(***************************************************************************)
EXTENDS Integers, Sequences, FiniteSets, TLC

VARIABLES
    tableExists,  \* whether table mods exists in mods.db
    columns,      \* the columns of table mods
    mods,         \* the rows of table mods: functions from columns to values
    seq,          \* sqlite_sequence of mods (AUTOINCREMENT): largest rowid ever used
    issued,       \* the ids db_insert has returned so far, in order
    pre,          \* the database as it was before the last call
    last,         \* the last call: its name, its arguments, what it returned
    ui            \* MainWindow: rows, the search text, the category filter's
                  \* options and current index, the selected table row

vars == <<tableExists, columns, mods, seq, issued, pre, last, ui>>

-----------------------------------------------------------------------------
(* Bounds of the model. *)

\* db_insert is not called any more once this many rowids have been used
MaxId == 2
\* the largest number of rows of a store a query is run on
MaxRows == 2
\* the largest number of rows of a store found at startup
MaxLegacyRows == 2

-----------------------------------------------------------------------------
(* Characters and strings. *)

UpperChars == <<"A","B","C","D","E","F","G","H","I","J","K","L","M",
                "N","O","P","Q","R","S","T","U","V","W","X","Y","Z">>
LowerChars == <<"a","b","c","d","e","f","g","h","i","j","k","l","m",
                "n","o","p","q","r","s","t","u","v","w","x","y","z">>

\* The characters of the model in ASCII order (9, 32, 37, 65..90, 95, 97..122).
AsciiOrder == <<"\t", " ", "%">> \o UpperChars \o <<"_">> \o LowerChars

\* The rank of each character in ASCII order: memcmp compares by it.
CodeOf ==
    [ch \in {AsciiOrder[i] : i \in 1..Len(AsciiOrder)} |->
        CHOOSE i \in 1..Len(AsciiOrder) : AsciiOrder[i] = ch]

Code(ch) == CodeOf[ch]

\* ASCII lower-casing of each character: sqlite's LOWER() and NOCASE fold A-Z
\* only, and on ASCII text Python's str.lower() does the same.
LowerOf ==
    [ch \in DOMAIN CodeOf |->
        IF \E i \in 1..Len(UpperChars) : UpperChars[i] = ch
        THEN LowerChars[CHOOSE i \in 1..Len(UpperChars) : UpperChars[i] = ch]
        ELSE ch]

LowerChar(ch) == LowerOf[ch]

\* str.lower() / LOWER(X)
Lower(s) == [i \in 1..Len(s) |-> LowerChar(s[i])]

\* Characters str.strip() removes, and the one TRIM(X) removes.
PyWhitespace == {" ", "\t"}
SqlTrimChars == {" "}

RECURSIVE LStrip(_, _)
LStrip(s, ws) ==
    IF s # <<>> /\ Head(s) \in ws THEN LStrip(Tail(s), ws) ELSE s

RECURSIVE RStrip(_, _)
RStrip(s, ws) ==
    IF s # <<>> /\ s[Len(s)] \in ws THEN RStrip(SubSeq(s, 1, Len(s) - 1), ws) ELSE s

\* str.strip(): leading and trailing whitespace removed
Strip(s) == RStrip(LStrip(s, PyWhitespace), PyWhitespace)

\* sqlite TRIM(X): leading and trailing spaces removed
SqlTrim(s) == RStrip(LStrip(s, SqlTrimChars), SqlTrimChars)

\* BINARY collation: s sorts strictly before t (memcmp, then the shorter first)
RECURSIVE BinaryLess(_, _)
BinaryLess(s, t) ==
    IF t = <<>> THEN FALSE
    ELSE IF s = <<>> THEN TRUE
    ELSE IF Head(s) # Head(t) THEN Code(Head(s)) < Code(Head(t))
    ELSE BinaryLess(Tail(s), Tail(t))

\* NOCASE collation: as BINARY, with A-Z folded to a-z
NoCaseLess(s, t) == BinaryLess(Lower(s), Lower(t))

\* X LIKE pattern, no ESCAPE: '%' matches any run of characters, '_' any one
\* character, every other character itself, ASCII letters irrespective of case.
RECURSIVE Like(_, _)
Like(s, pat) ==
    IF pat = <<>> THEN s = <<>>
    ELSE IF Head(pat) = "%"
         THEN Like(s, Tail(pat)) \/ (s # <<>> /\ Like(Tail(s), pat))
    ELSE IF s = <<>> THEN FALSE
    ELSE IF Head(pat) = "_" THEN Like(Tail(s), Tail(pat))
    ELSE LowerChar(Head(s)) = LowerChar(Head(pat)) /\ Like(Tail(s), Tail(pat))

-----------------------------------------------------------------------------
(* The schema. *)

\* CREATE TABLE IF NOT EXISTS mods (...)
OriginalColumns == {"id", "name", "cover_path", "bat_path", "status", "last_run"}
\* the columns the migrations add
NewerColumns == {"version", "category", "blend_path", "work_path"}
AllColumns == OriginalColumns \cup NewerColumns

\* Python's None
None == <<"None">>

\* dict.get(key, default)
Get(mod, key, default) == IF key \in DOMAIN mod THEN mod[key] ELSE default

\* The database as one value.
Db == [tableExists |-> tableExists, columns |-> columns, mods |-> mods, seq |-> seq]

\* The statements of the CRUD functions name all ten columns.
SchemaCurrent == tableExists /\ columns = AllColumns

Ids(ms) == {r.id : r \in ms}
Max(S) == CHOOSE x \in S : \A y \in S : y <= x

-----------------------------------------------------------------------------
(* db_init *)

\* _column_exists(con, "mods", col): PRAGMA table_info lists the column
column_exists(db, col) == col \in db.columns

\* CREATE TABLE IF NOT EXISTS mods (...): the original six columns, no row
CreateTable(db) ==
    IF db.tableExists THEN db
    ELSE [tableExists |-> TRUE, columns |-> OriginalColumns, mods |-> {}, seq |-> 0]

\* AddColumn, had the column been added without a default: rows read NULL.
AddColumnNoDefault(db, col) ==
    [db EXCEPT !.columns = @ \cup {col},
               !.mods = {[c \in (DOMAIN r) \cup {col} |->
                             IF c = col THEN None ELSE r[c]] : r \in @}]

\* ALTER TABLE mods ADD COLUMN col TEXT NOT NULL DEFAULT '': every row there
\* is reads '' in the new column
AddColumn(db, col) ==
    [db EXCEPT !.columns = @ \cup {col},
               !.mods = {[c \in (DOMAIN r) \cup {col} |->
                             IF c = col THEN <<>> ELSE r[c]] : r \in @}]

\* if not _column_exists(con, "mods", col): con.execute("ALTER TABLE ...")
Migrate(db, col) == IF ~column_exists(db, col) THEN AddColumn(db, col) ELSE db

\* db_init(): the database afterwards
db_init(db) ==
    Migrate(Migrate(Migrate(Migrate(CreateTable(db),
        "version"), "category"), "blend_path"), "work_path")

-----------------------------------------------------------------------------
(* db_insert *)

\* ModValues, had the code stripped every text value alike, name included.
ModValuesStripsName(mod) ==
    [name       |-> Strip(Get(mod, "name", <<>>)),
     cover_path |-> Get(mod, "cover_path", <<>>),
     bat_path   |-> Get(mod, "bat_path", <<>>),
     status     |-> Get(mod, "status", "Ready"),
     last_run   |-> Get(mod, "last_run", 0),
     version    |-> Strip(Get(mod, "version", <<>>)),
     category   |-> Strip(Get(mod, "category", <<>>)),
     blend_path |-> Strip(Get(mod, "blend_path", <<>>)),
     work_path  |-> Strip(Get(mod, "work_path", <<>>))]

\* The nine values db_insert and db_update bind to their statement.
ModValues(mod) ==
    [name       |-> Get(mod, "name", <<>>),
     cover_path |-> Get(mod, "cover_path", <<>>),
     bat_path   |-> Get(mod, "bat_path", <<>>),
     status     |-> Get(mod, "status", "Ready"),
     last_run   |-> Get(mod, "last_run", 0),
     version    |-> Strip(Get(mod, "version", <<>>)),
     category   |-> Strip(Get(mod, "category", <<>>)),
     blend_path |-> Strip(Get(mod, "blend_path", <<>>)),
     work_path  |-> Strip(Get(mod, "work_path", <<>>))]

\* A row of the current schema: the id and the nine values.
Row(id, v) ==
    [id |-> id, name |-> v.name, cover_path |-> v.cover_path,
     bat_path |-> v.bat_path, status |-> v.status, last_run |-> v.last_run,
     version |-> v.version, category |-> v.category,
     blend_path |-> v.blend_path, work_path |-> v.work_path]

\* NextRowid, had the column been INTEGER PRIMARY KEY without AUTOINCREMENT:
\* one more than the largest rowid in the table.
NextRowidOfTable(s, ms) == Max({0} \cup Ids(ms)) + 1

\* INTEGER PRIMARY KEY AUTOINCREMENT: one more than the largest rowid ever
\* used, which sqlite_sequence remembers across deletes.
NextRowid(s, ms) == Max({s} \cup Ids(ms)) + 1

\* INSERT INTO mods (...) VALUES (...)
Inserted(ms, s, mod) == ms \cup {Row(NextRowid(s, ms), ModValues(mod))}

\* db_insert(mod): the database afterwards and the id returned (cur.lastrowid)
db_insert(db, mod) ==
    [db  |-> [db EXCEPT !.mods = Inserted(db.mods, db.seq, mod),
                        !.seq  = NextRowid(db.seq, db.mods)],
     ret |-> NextRowid(db.seq, db.mods)]

-----------------------------------------------------------------------------
(* db_update, db_delete, db_update_run *)

\* Updated, had the statement matched on name instead of id.
UpdatedWhereName(ms, mod_id, mod) ==
    {IF \E x \in ms : x.id = mod_id /\ x.name = r.name
     THEN Row(r.id, ModValues(mod)) ELSE r : r \in ms}

\* Updated, had the statement been INSERT OR REPLACE: an id that is not in
\* the table gets a row.
UpdatedOrInserted(ms, mod_id, mod) ==
    {r \in ms : r.id # mod_id} \cup {Row(mod_id, ModValues(mod))}

\* UPDATE mods SET name = ?, ... WHERE id = ?
Updated(ms, mod_id, mod) ==
    {IF r.id = mod_id THEN Row(r.id, ModValues(mod)) ELSE r : r \in ms}

db_update(db, mod_id, mod) == [db EXCEPT !.mods = Updated(db.mods, mod_id, mod)]

\* Deleted, had the statement lost its WHERE clause.
DeletedNoWhere(ms, mod_id) == {}

\* DELETE FROM mods WHERE id = ?
Deleted(ms, mod_id) == {r \in ms : r.id # mod_id}

db_delete(db, mod_id) == [db EXCEPT !.mods = Deleted(db.mods, mod_id)]

\* RunUpdated, had the statement lost its WHERE clause.
RunUpdatedNoWhere(ms, mod_id, status, last_run_ts) ==
    {[r EXCEPT !.status = status, !.last_run = last_run_ts] : r \in ms}

\* UPDATE mods SET status = ?, last_run = ? WHERE id = ?
RunUpdated(ms, mod_id, status, last_run_ts) ==
    {IF r.id = mod_id
     THEN [r EXCEPT !.status = status, !.last_run = last_run_ts]
     ELSE r : r \in ms}

db_update_run(db, mod_id, status, last_run_ts) ==
    [db EXCEPT !.mods = RunUpdated(db.mods, mod_id, status, last_run_ts)]

-----------------------------------------------------------------------------
(* db_fetch_all, db_distinct_categories *)

\* The value the code compares the lower-cased category filter with.
AllSentinel == <<"_", "_", "a", "l", "l", "_", "_">>

\* if name_filter: q += " AND LOWER(name) LIKE ?", with "%" + lower + "%"
NameCondition(name_filter, r) ==
    (name_filter # None /\ name_filter # <<>>)
        => Like(Lower(r.name), <<"%">> \o Lower(name_filter) \o <<"%">>)

\* CategoryCondition, had the category been matched as the name is:
\* irrespective of letter case.
CategoryConditionNoCase(category_filter, r) ==
    (/\ category_filter # None
     /\ category_filter # <<>>
     /\ Lower(category_filter) # AllSentinel)
        => Lower(r.category) = Lower(category_filter)

\* if category_filter and category_filter.lower() != "__all__":
\*     q += " AND category = ?"
CategoryCondition(category_filter, r) ==
    (/\ category_filter # None
     /\ category_filter # <<>>
     /\ Lower(category_filter) # AllSentinel)
        => r.category = category_filter

\* ORDER BY name ASC: the column has no COLLATE clause, so BINARY decides.
FetchOrderLess(s, t) == BinaryLess(s, t)

\* CategoryOrderLess, had the ORDER BY been written without COLLATE NOCASE.
CategoryOrderBinary(s, t) == BinaryLess(s, t)

\* ORDER BY category COLLATE NOCASE
CategoryOrderLess(s, t) == NoCaseLess(s, t)

\* The sequences that list every element of S once.
Listings(S) ==
    {f \in [1..Cardinality(S) -> S] : \A i, j \in DOMAIN f : f[i] = f[j] => i = j}

\* The rows the WHERE clause of db_fetch_all keeps.
Selected(ms, name_filter, category_filter) ==
    {r \in ms : NameCondition(name_filter, r) /\ CategoryCondition(category_filter, r)}

\* db_fetch_all(name_filter, category_filter): the lists it may return.  SQL
\* leaves the order of rows with equal ORDER BY keys open, so there is one
\* list for each order of such rows.
db_fetch_all(ms, name_filter, category_filter) ==
    {f \in Listings(Selected(ms, name_filter, category_filter)) :
        \A i, j \in DOMAIN f : i < j => ~FetchOrderLess(f[j].name, f[i].name)}

\* SELECT DISTINCT category FROM mods WHERE TRIM(category) <> ''
DistinctCategories(ms) == {r.category : r \in {x \in ms : SqlTrim(x.category) # <<>>}}

\* return [r[0] for r in rows if r[0]]
Truthy(rows) == SelectSeq(rows, LAMBDA c : c # <<>>)

\* db_distinct_categories(): the lists it may return (one for each order of
\* the values NOCASE holds equal).
db_distinct_categories(ms) ==
    {Truthy(f) : f \in {g \in Listings(DistinctCategories(ms)) :
        \A i, j \in DOMAIN g : i < j => ~CategoryOrderLess(g[j], g[i])}}

-----------------------------------------------------------------------------
(* The calls the presentation layer can make, with small inputs. *)

\* Dictionaries passed as mod.  The first leaves out the optional keys, as a
\* direct caller of the store may; the second has the shape of
\* ModEditorDialog.get_value; all carry whitespace the store may strip.
ModInputs ==
    { [name |-> <<"a">>, category |-> <<" ", "a">>],
      [name |-> <<"B">>, version |-> <<"v", "\t">>, category |-> <<"A">>,
       cover_path |-> <<" ", "c">>, bat_path |-> <<"r">>, blend_path |-> <<>>,
       work_path |-> <<>>, status |-> "Ready", last_run |-> 0],
      [name |-> <<"b", " ">>, category |-> <<"\t">>, work_path |-> <<"w", " ">>,
       status |-> "Done", last_run |-> 7],
      [name |-> <<>>, category |-> <<"B">>, blend_path |-> <<" ", "s">>] }

\* (status, timestamp) pairs passed to db_update_run
RunInputs == { <<"Running", 9>> }

\* ids passed to db_update, db_delete and db_update_run: used or not
IdInputs == 1..MaxId

NoCall == [op |-> "none"]

\* MainWindow before it is constructed: no row, no option, nothing selected.
NoWindow == [rows |-> <<>>, search |-> <<>>, options |-> <<>>, index |-> -1, selected |-> -1]

SetDb(db) ==
    /\ tableExists' = db.tableExists
    /\ columns' = db.columns
    /\ mods' = db.mods
    /\ seq' = db.seq

DbInsert(mod) ==
    /\ SchemaCurrent
    /\ seq < MaxId
    /\ LET r == db_insert(Db, mod) IN
        /\ SetDb(r.db)
        /\ issued' = Append(issued, r.ret)
        /\ last' = [op |-> "db_insert", mod |-> mod, ret |-> r.ret]
    /\ pre' = Db
    /\ UNCHANGED ui

DbUpdate(mod_id, mod) ==
    /\ SchemaCurrent
    /\ SetDb(db_update(Db, mod_id, mod))
    /\ last' = [op |-> "db_update", mod_id |-> mod_id, mod |-> mod]
    /\ pre' = Db
    /\ UNCHANGED <<issued, ui>>

DbDelete(mod_id) ==
    /\ SchemaCurrent
    /\ SetDb(db_delete(Db, mod_id))
    /\ last' = [op |-> "db_delete", mod_id |-> mod_id]
    /\ pre' = Db
    /\ UNCHANGED <<issued, ui>>

DbUpdateRun(mod_id, status, last_run_ts) ==
    /\ SchemaCurrent
    /\ SetDb(db_update_run(Db, mod_id, status, last_run_ts))
    /\ last' = [op |-> "db_update_run", mod_id |-> mod_id,
                status |-> status, last_run_ts |-> last_run_ts]
    /\ pre' = Db
    /\ UNCHANGED <<issued, ui>>

\* The database main() leaves when it starts without a mods.db: db_init has
\* created the table with all ten columns and no row.
FreshDb == [tableExists |-> TRUE, columns |-> AllColumns, mods |-> {}, seq |-> 0]

Init ==
    /\ tableExists = FreshDb.tableExists
    /\ columns = FreshDb.columns
    /\ mods = FreshDb.mods
    /\ seq = FreshDb.seq
    /\ issued = <<>>
    /\ pre = FreshDb
    /\ last = NoCall
    /\ ui = NoWindow

Next ==
    \/ \E mod \in ModInputs : DbInsert(mod)
    \/ \E mod_id \in IdInputs, mod \in ModInputs : DbUpdate(mod_id, mod)
    \/ \E mod_id \in IdInputs : DbDelete(mod_id)
    \/ \E mod_id \in IdInputs, r \in RunInputs : DbUpdateRun(mod_id, r[1], r[2])

Spec == Init /\ [][Next]_vars

-----------------------------------------------------------------------------
(* Queries: db_fetch_all on stores the CRUD calls can have built. *)

DragonPose == <<"D", "r", "a", "g", "o", "n", " ", "P", "o", "s", "e">>

\* (name, category) of the rows of the stores that are queried; each is in a
\* store at most once
QueryRows ==
    { <<DragonPose, <<"A">>>>,
      <<<<"a", "b", "c">>, <<"a">>>>,
      <<<<"a">>, <<>>>>,
      <<<<"B">>, <<"A">>>> }

\* The stores: rows 1..k as db_insert writes them, k <= MaxRows.
QueryStores ==
    UNION { { {Row(i, ModValues([name |-> f[i][1], category |-> f[i][2]])) : i \in 1..k}
              : f \in {g \in [1..k -> QueryRows] :
                         \A i, j \in 1..k : g[i] = g[j] => i = j} }
            : k \in 0..MaxRows }

\* Values passed as name_filter
NameFilters ==
    { None, <<>>,
      <<"d", "r", "a", "g", "o", "n">>,
      <<"D", "R", "A", "G", "O", "N">>,
      <<"a", "g", "o", "n", " ", "p", "o">>,
      <<"d", "r", "a", "g", "o", "n", "s">>,
      <<"a", "_", "c">>, <<"%">> }

\* Values passed as category_filter
CategoryFilters ==
    { None, <<>>, AllSentinel,
      <<"_", "_", "A", "L", "L", "_", "_">>,
      <<"A">>, <<"a">> }

DbFetchAll(name_filter, category_filter) ==
    /\ SchemaCurrent
    /\ \E rows \in db_fetch_all(mods, name_filter, category_filter) :
          last' = [op |-> "db_fetch_all", name_filter |-> name_filter,
                   category_filter |-> category_filter, ret |-> rows]
    /\ pre' = Db
    /\ UNCHANGED <<tableExists, columns, mods, seq, issued, ui>>

InitQuery ==
    /\ tableExists = TRUE
    /\ columns = AllColumns
    /\ mods \in QueryStores
    /\ seq = Cardinality(mods)
    /\ issued = [i \in 1..seq |-> i]
    /\ pre = Db
    /\ last = NoCall
    /\ ui = NoWindow

NextQuery ==
    \E name_filter \in NameFilters, category_filter \in CategoryFilters :
        DbFetchAll(name_filter, category_filter)

SpecQuery == InitQuery /\ [][NextQuery]_vars

-----------------------------------------------------------------------------
(* Startup: db_init on the mods.db it finds. *)

\* Values of the rows of a mods.db written by this or an older version.
LegacyValues ==
    { [name |-> <<"a">>, cover_path |-> <<"c">>, bat_path |-> <<"r">>,
       status |-> "Running", last_run |-> 7, version |-> <<"v">>,
       category |-> <<"A">>, blend_path |-> <<"s">>, work_path |-> <<"w">>],
      [name |-> <<"B", " ">>, cover_path |-> <<>>, bat_path |-> <<>>,
       status |-> "Ready", last_run |-> 0, version |-> <<>>,
       category |-> <<"a">>, blend_path |-> <<>>, work_path |-> <<>>] }

\* The row Row(id, v) of a table that has only the columns cols.
LegacyRow(id, v, cols) == [c \in cols |-> Row(id, v)[c]]

\* The databases found at startup: no table, or the original columns and
\* any of the newer ones, with up to MaxLegacyRows rows.
LegacyDbs ==
    {[tableExists |-> FALSE, columns |-> {}, mods |-> {}, seq |-> 0]}
    \cup
    UNION { UNION { { [tableExists |-> TRUE,
                       columns |-> OriginalColumns \cup newer,
                       mods |-> {LegacyRow(i, f[i], OriginalColumns \cup newer) : i \in 1..k},
                       seq |-> k]
                      : f \in [1..k -> LegacyValues] }
                    : k \in 0..MaxLegacyRows }
            : newer \in SUBSET NewerColumns }

DbInit ==
    /\ SetDb(db_init(Db))
    /\ last' = [op |-> "db_init"]
    /\ pre' = Db
    /\ UNCHANGED <<issued, ui>>

InitMigrate ==
    /\ \E db \in LegacyDbs :
        /\ tableExists = db.tableExists
        /\ columns = db.columns
        /\ mods = db.mods
        /\ seq = db.seq
    /\ issued = [i \in 1..seq |-> i]
    /\ pre = Db
    /\ last = NoCall
    /\ ui = NoWindow

NextMigrate == DbInit

SpecMigrate == InitMigrate /\ [][NextMigrate]_vars

-----------------------------------------------------------------------------
(* MainWindow and ModEditorDialog. *)

\* The record ModEditorDialog edits when it is given none.
DefaultMod ==
    [name |-> <<>>, version |-> <<>>, category |-> <<>>, cover_path |-> <<>>,
     bat_path |-> <<>>, blend_path |-> <<>>, work_path |-> <<>>,
     status |-> "Ready", last_run |-> 0]

\* ModEditorDialog.get_value: the texts of the dialog's fields, stripped, with
\* the status and last_run of the record the dialog was opened on
get_value(fields, mod) ==
    [name       |-> Strip(fields.name),
     version    |-> Strip(fields.version),
     category   |-> Strip(fields.category),
     cover_path |-> Strip(fields.cover_path),
     bat_path   |-> Strip(fields.bat_path),
     blend_path |-> Strip(fields.blend_path),
     work_path  |-> Strip(fields.work_path),
     status     |-> Get(mod, "status", "Ready"),
     last_run   |-> Get(mod, "last_run", 0)]

\* MainWindow.refresh_categories: the options become "All" (userData
\* "__all__") and one for each distinct category; the filled combo box has
\* its first item current, and its signals are blocked meanwhile.
refresh_categories(w, db) ==
    {[w EXCEPT !.options = <<AllSentinel>> \o cats, !.index = 0]
        : cats \in db_distinct_categories(db.mods)}

\* MainWindow.current_category_filter
current_category_filter(w) ==
    IF w.index >= 0 THEN w.options[w.index + 1] ELSE AllSentinel

\* name_q = self.search_edit.text().strip(); name_q if name_q else None
NameQuery(w) == IF Strip(w.search) # <<>> THEN Strip(w.search) ELSE None

\* refresh: "Reselect if needed": the first table row whose name is
\* select_name, when select_name is given and not empty; rows count from 0
Reselect(rows, select_name) ==
    IF select_name # None /\ select_name # <<>>
       /\ \E i \in DOMAIN rows : rows[i].name = select_name
    THEN (CHOOSE i \in DOMAIN rows :
            /\ rows[i].name = select_name
            /\ \A j \in DOMAIN rows : rows[j].name = select_name => i <= j) - 1
    ELSE -1

\* MainWindow.refresh(select_name): rows are fetched again, the table is
\* filled from them, which clears its selection
refresh(w, db, select_name) ==
    {[w EXCEPT !.rows = rows, !.selected = Reselect(rows, select_name)]
        : rows \in db_fetch_all(db.mods, NameQuery(w), current_category_filter(w))}

\* The row of the selected table row (selected_id, rows[idx]).
SelectedRow(w) == w.rows[w.selected + 1]

\* What a handler leaves: the database, the window, the calls it made.
Outcome(db, w, calls) == [db |-> db, ui |-> w, calls |-> calls]

\* MainWindow.add_mod, the dialog accepted or not with the texts fields
add_mod(db, w, accepted, fields) ==
    IF ~accepted THEN {Outcome(db, w, <<>>)}
    ELSE LET v == get_value(fields, DefaultMod) IN
         IF v.name = <<>> THEN {Outcome(db, w, <<>>)}
         ELSE LET db2 == db_insert(db, v).db IN
              {Outcome(db2, w3, <<"db_insert", "refresh_categories", "refresh">>)
                 : w3 \in UNION {refresh(w2, db2, v.name)
                                   : w2 \in refresh_categories(w, db2)}}

\* MainWindow.edit_selected
edit_selected(db, w, accepted, fields) ==
    IF w.selected < 0 THEN {Outcome(db, w, <<>>)}
    ELSE LET row == SelectedRow(w)
             current == [k \in AllColumns \ {"id"} |-> row[k]] IN
         IF ~accepted THEN {Outcome(db, w, <<>>)}
         ELSE LET updated == get_value(fields, current)
                  db2 == db_update(db, row.id, updated) IN
              {Outcome(db2, w3, <<"db_update", "refresh_categories", "refresh">>)
                 : w3 \in UNION {refresh(w2, db2, updated.name)
                                   : w2 \in refresh_categories(w, db2)}}

\* delete_selected, had it not fetched the rows again.
delete_selected_keeps_rows(db, w, yes) ==
    IF w.selected < 0 \/ ~yes THEN {Outcome(db, w, <<>>)}
    ELSE LET db2 == db_delete(db, SelectedRow(w).id) IN
         {Outcome(db2, w2, <<"db_delete", "refresh_categories">>)
            : w2 \in refresh_categories(w, db2)}

\* MainWindow.delete_selected, the question answered Yes or not
delete_selected(db, w, yes) ==
    IF w.selected < 0 \/ ~yes THEN {Outcome(db, w, <<>>)}
    ELSE LET db2 == db_delete(db, SelectedRow(w).id) IN
         {Outcome(db2, w3, <<"db_delete", "refresh_categories", "refresh">>)
            : w3 \in UNION {refresh(w2, db2, None)
                              : w2 \in refresh_categories(w, db2)}}

\* run_selected, had it recorded the run before starting the process.
run_selected_writes_first(db, w, file_exists, spawn_ok, now_ts) ==
    IF w.selected < 0 THEN {Outcome(db, w, <<>>)}
    ELSE LET row == SelectedRow(w) IN
         IF row.bat_path = <<>> \/ ~file_exists
         THEN {Outcome(db, w, <<"warning">>)}
         ELSE LET db2 == db_update_run(db, row.id, "Running", now_ts) IN
              IF ~spawn_ok
              THEN {Outcome(db2, w, <<"db_update_run", "Popen", "critical">>)}
              ELSE {Outcome(db2, w2, <<"db_update_run", "Popen", "refresh">>)
                      : w2 \in refresh(w, db2, row.name)}

\* MainWindow.run_selected: file_exists is Path(bat).exists(), spawn_ok is
\* whether subprocess.Popen returned rather than raised, now_ts the clock
run_selected(db, w, file_exists, spawn_ok, now_ts) ==
    IF w.selected < 0 THEN {Outcome(db, w, <<>>)}
    ELSE LET row == SelectedRow(w) IN
         IF row.bat_path = <<>> \/ ~file_exists
         THEN {Outcome(db, w, <<"warning">>)}
         ELSE IF ~spawn_ok
         THEN {Outcome(db, w, <<"Popen", "critical">>)}
         ELSE LET db2 == db_update_run(db, row.id, "Running", now_ts) IN
              {Outcome(db2, w2, <<"Popen", "db_update_run", "refresh">>)
                 : w2 \in refresh(w, db2, row.name)}

\* Texts left in the dialog when Save is pressed (the fields not listed
\* here are left empty).
DialogTexts(name, category, bat_path) ==
    [name |-> name, version |-> <<>>, category |-> category, cover_path |-> <<>>,
     bat_path |-> bat_path, blend_path |-> <<>>, work_path |-> <<>>]

DialogInputs ==
    { DialogTexts(<<"a">>, <<" ", "A">>, <<"r">>),
      DialogTexts(<<"B", " ">>, <<"b">>, <<>>),
      DialogTexts(<<" ">>, <<"b">>, <<"r">>) }

\* Texts typed into the search field
SearchInputs == { <<>>, <<"a", " ">> }

\* The clock when run_selected reads it
NowInputs == { r[2] : r \in RunInputs }

SetOutcome(o) ==
    /\ SetDb(o.db)
    /\ ui' = o.ui
    /\ pre' = Db
    /\ issued' = IF o.db.seq > seq THEN Append(issued, o.db.seq) ELSE issued

AddMod(accepted, fields) ==
    /\ seq < MaxId
    /\ \E o \in add_mod(Db, ui, accepted, fields) :
          /\ SetOutcome(o)
          /\ last' = [op |-> "add_mod", calls |-> o.calls]

EditSelected(accepted, fields) ==
    \E o \in edit_selected(Db, ui, accepted, fields) :
        /\ SetOutcome(o)
        /\ last' = [op |-> "edit_selected", calls |-> o.calls]

DeleteSelected(yes) ==
    \E o \in delete_selected(Db, ui, yes) :
        /\ SetOutcome(o)
        /\ last' = [op |-> "delete_selected", calls |-> o.calls]

\* What the handler saw of a condition it may not have got to test.
Observed(asked, value, yes, no) ==
    IF ~asked THEN "not asked" ELSE IF value THEN yes ELSE no

RunSelected(file_exists, spawn_ok, now_ts) ==
    \E o \in run_selected(Db, ui, file_exists, spawn_ok, now_ts) :
        /\ SetOutcome(o)
        /\ last' = [op |-> "run_selected", calls |-> o.calls,
                    selected |-> ui.selected,
                    row |-> IF ui.selected >= 0 THEN SelectedRow(ui) ELSE None,
                    file |-> Observed(ui.selected >= 0 /\ SelectedRow(ui).bat_path # <<>>,
                                      file_exists, "exists", "missing"),
                    spawn |-> Observed(\E i \in DOMAIN o.calls : o.calls[i] = "Popen",
                                       spawn_ok, "returned", "raised"),
                    now_ts |-> now_ts]

\* search_edit.textChanged -> refresh
SearchChanged(text) ==
    /\ text # ui.search
    /\ \E w \in refresh([ui EXCEPT !.search = text], Db, None) :
          SetOutcome(Outcome(Db, w, <<"refresh">>))
    /\ last' = [op |-> "search_changed", calls |-> <<"refresh">>]

\* category_filter.currentIndexChanged -> refresh
CategoryChanged(index) ==
    /\ index # ui.index
    /\ index < Len(ui.options)
    /\ \E w \in refresh([ui EXCEPT !.index = index], Db, None) :
          SetOutcome(Outcome(Db, w, <<"refresh">>))
    /\ last' = [op |-> "category_changed", calls |-> <<"refresh">>]

\* The user selects a row of the table (current_row_index reads it).
SelectRow(i) ==
    /\ i < Len(ui.rows)
    /\ i # ui.selected
    /\ SetOutcome(Outcome(Db, [ui EXCEPT !.selected = i], <<>>))
    /\ last' = [op |-> "select_row", calls |-> <<>>]

\* main(): db_init on a new mods.db, then MainWindow(): refresh_categories
\* and refresh on the empty table.
InitUI ==
    /\ tableExists = FreshDb.tableExists
    /\ columns = FreshDb.columns
    /\ mods = FreshDb.mods
    /\ seq = FreshDb.seq
    /\ issued = <<>>
    /\ pre = FreshDb
    /\ last = NoCall
    /\ ui \in UNION {refresh(w, FreshDb, None) : w \in refresh_categories(NoWindow, FreshDb)}

NextUI ==
    \/ \E accepted \in BOOLEAN, fields \in DialogInputs : AddMod(accepted, fields)
    \/ \E accepted \in BOOLEAN, fields \in DialogInputs : EditSelected(accepted, fields)
    \/ \E yes \in BOOLEAN : DeleteSelected(yes)
    \/ \E file_exists \in BOOLEAN, spawn_ok \in BOOLEAN, now_ts \in NowInputs :
          RunSelected(file_exists, spawn_ok, now_ts)
    \/ \E text \in SearchInputs : SearchChanged(text)
    \/ \E index \in 0..MaxId : CategoryChanged(index)
    \/ \E i \in 0..(MaxId - 1) : SelectRow(i)

SpecUI == InitUI /\ [][NextUI]_vars

-----------------------------------------------------------------------------
(* What the claims are stated with. *)

Range(f) == {f[i] : i \in DOMAIN f}

\* s occurs in t as a contiguous substring
IsSubstring(s, t) ==
    \E i \in 0..(Len(t) - Len(s)) : SubSeq(t, i + 1, i + Len(s)) = s

\* The keys of a mod dictionary that hold the mutable fields of a record.
MutableFields == AllColumns \ {"id"}

\* The fields whose values db_insert and db_update strip.
StrippedFields == {"version", "category", "blend_path", "work_path"}

\* The value the schema documents for a field that is not supplied.
DefaultOf(k) == IF k = "status" THEN "Ready" ELSE IF k = "last_run" THEN 0 ELSE <<>>

\* r holds, in every field the dictionary supplies, exactly the value
\* supplied, and the documented default in the others; with stripped, r
\* holds in version, category, blend_path and work_path the supplied value
\* without its leading and trailing whitespace.
HoldsFields(r, mod, stripped) ==
    \A k \in MutableFields :
        r[k] = IF stripped /\ k \in StrippedFields
               THEN Strip(Get(mod, k, DefaultOf(k)))
               ELSE Get(mod, k, DefaultOf(k))

\* The listing with no filters, after a create, has every earlier record
\* unchanged and exactly one more record, which holds the supplied fields.
CreateListed(stripped) ==
    \A listing \in db_fetch_all(mods, None, None) :
        /\ pre.mods \subseteq Range(listing)
        /\ Len(listing) = Cardinality(pre.mods) + 1
        /\ \E i \in DOMAIN listing :
              /\ listing[i] \notin pre.mods
              /\ listing[i].id \notin Ids(pre.mods)
              /\ HoldsFields(listing[i], last.mod, stripped)

\* C1 (as claimed): after db_insert of a dictionary with a non-empty name, the
\* listing with no filters holds exactly one new record, whose fields equal
\* the supplied ones exactly (status "Ready" and last_run 0 when not
\* supplied), and every earlier record unchanged.
C1_CreateListsSuppliedFields ==
    (last.op = "db_insert" /\ Get(last.mod, "name", <<>>) # <<>>)
        => CreateListed(FALSE)

\* C1 (amended): as claimed, except that version, category, blend_path and
\* work_path are stored with leading and trailing whitespace removed.
C1_CreateListsStrippedFields ==
    (last.op = "db_insert" /\ Get(last.mod, "name", <<>>) # <<>>)
        => CreateListed(TRUE)

\* A create next to an earlier record, of a dictionary that leaves out
\* status and last_run and whose category carries whitespace.
C1_Witness ==
    /\ last.op = "db_insert"
    /\ Get(last.mod, "name", <<>>) # <<>>
    /\ pre.mods # {}
    /\ "status" \notin DOMAIN last.mod
    /\ "last_run" \notin DOMAIN last.mod
    /\ Strip(last.mod.category) # last.mod.category

\* C2 (as claimed): every list db_fetch_all returns is ordered by name
\* ascending, compared case-insensitively, and records whose names are equal
\* case-insensitively are ordered by id ascending, whatever the filters.
C2_OrderedByNameNoCaseThenId ==
    last.op = "db_fetch_all" =>
        \A i, j \in DOMAIN last.ret :
            i < j =>
                \/ NoCaseLess(last.ret[i].name, last.ret[j].name)
                \/ /\ Lower(last.ret[i].name) = Lower(last.ret[j].name)
                   /\ last.ret[i].id < last.ret[j].id

\* C3 (as claimed): with a non-empty name filter f, a record is returned
\* exactly when the lower-cased f occurs as a contiguous substring of its
\* lower-cased name, '%' and '_' in f standing for themselves; an empty or
\* absent name filter excludes no record.  (Stated with no category filter.)
C3_NameFilterIsSubstringMatch ==
    (last.op = "db_fetch_all" /\ last.category_filter = None) =>
        \A r \in mods :
            r \in Range(last.ret) <=>
                \/ last.name_filter \in {None, <<>>}
                \/ IsSubstring(Lower(last.name_filter), Lower(r.name))

\* The records of get_all(n): any list db_fetch_all returns for n alone.
RecordsOfNameFilter(n) == UNION {Range(listing) : listing \in db_fetch_all(mods, n, None)}

\* C4 (as claimed): with the category filter absent or equal to "__all__"
\* get_all(n, c) returns the records of get_all(n); with any other c,
\* compared exactly, it returns those of them whose category equals c.
C4_CategoryFilterExactSentinel ==
    last.op = "db_fetch_all" =>
        Range(last.ret) =
            IF last.category_filter = None \/ last.category_filter = AllSentinel
            THEN RecordsOfNameFilter(last.name_filter)
            ELSE {r \in RecordsOfNameFilter(last.name_filter) :
                    r.category = last.category_filter}

\* C4 (amended): the category filter is no filter when it is absent, the
\* empty string, or "__all__" in any letter case; every other c keeps
\* exactly the records of get_all(n) whose category equals c, case-sensitively.
C4_CategoryFilterFoldedSentinel ==
    last.op = "db_fetch_all" =>
        Range(last.ret) =
            IF \/ last.category_filter \in {None, <<>>}
               \/ Lower(last.category_filter) = AllSentinel
            THEN RecordsOfNameFilter(last.name_filter)
            ELSE {r \in RecordsOfNameFilter(last.name_filter) :
                    r.category = last.category_filter}

\* Both filters at work: of two records of category "A" the name filter
\* keeps one, and a record of category "a" would not have passed.
C4_Witness ==
    /\ last.op = "db_fetch_all"
    /\ last.category_filter = <<"A">>
    /\ last.name_filter = <<"d", "r", "a", "g", "o", "n">>
    /\ Len(last.ret) = 1
    /\ Cardinality(mods) = 2
    /\ \A r \in mods : r.category = <<"A">>

\* After an update of an existing id: the store has the same ids, every
\* other record is unchanged, and the record fetched for the id holds the
\* supplied fields.
UpdateFetched(stripped) ==
    /\ Cardinality(mods) = Cardinality(pre.mods)
    /\ \A r \in pre.mods : r.id # last.mod_id => r \in mods
    /\ \A listing \in db_fetch_all(mods, None, None) :
          \E i \in DOMAIN listing :
              /\ listing[i].id = last.mod_id
              /\ HoldsFields(listing[i], last.mod, stripped)
              /\ \A j \in DOMAIN listing : listing[j].id = last.mod_id => j = i

\* C5 (as claimed): db_update of an existing id, then a fetch of the id, gives
\* a record with that id whose mutable fields equal exactly the values given;
\* no other record is changed and the number of records is the same.
C5_UpdateStoresSuppliedFields ==
    (last.op = "db_update" /\ last.mod_id \in Ids(pre.mods))
        => UpdateFetched(FALSE)

\* C5 (amended): as claimed, except that version, category, blend_path and
\* work_path are stored with leading and trailing whitespace removed.
C5_UpdateStoresStrippedFields ==
    (last.op = "db_update" /\ last.mod_id \in Ids(pre.mods))
        => UpdateFetched(TRUE)

\* An update of one of two records that changes its name and strips a field.
C5_Witness ==
    /\ last.op = "db_update"
    /\ Cardinality(pre.mods) = 2
    /\ \E r \in pre.mods :
          /\ r.id = last.mod_id
          /\ r.name # last.mod.name
          /\ r \notin mods
    /\ \E k \in StrippedFields \cap DOMAIN last.mod : Strip(last.mod[k]) # last.mod[k]

\* C6: db_update_run changes only status and last_run of the record with the
\* id: its other eight fields are as before, every other record is entirely
\* unchanged, and no record appears or disappears.
C6_RunUpdateTouchesOnlyStatusAndLastRun ==
    last.op = "db_update_run" =>
        /\ Cardinality(mods) = Cardinality(pre.mods)
        /\ \A r \in pre.mods :
              IF r.id = last.mod_id
              THEN \E r2 \in mods :
                      \A k \in AllColumns \ {"status", "last_run"} : r2[k] = r[k]
              ELSE r \in mods

\* A run update of one of two records that did change its status and last_run.
C6_Witness ==
    /\ last.op = "db_update_run"
    /\ Cardinality(pre.mods) = 2
    /\ \E r \in pre.mods, r2 \in mods :
          /\ r.id = last.mod_id /\ r2.id = last.mod_id
          /\ r2.status # r.status /\ r2.last_run # r.last_run

\* C7: after db_delete(id) no listing, under any filters, has a record with
\* that id, and every other record remains unchanged; with an id that is not
\* in the store (a second delete of the same id, say) the call returns
\* normally and the store is as before.
C7_DeleteRemovesOnlyThatId ==
    last.op = "db_delete" =>
        /\ \A n \in NameFilters, c \in CategoryFilters :
              \A listing \in db_fetch_all(mods, n, c) :
                  \A i \in DOMAIN listing : listing[i].id # last.mod_id
        /\ \A r \in pre.mods : r.id # last.mod_id => r \in mods
        /\ mods \subseteq pre.mods
        /\ last.mod_id \notin Ids(pre.mods) => Db = pre

\* A delete of one of two records.
C7_Witness ==
    /\ last.op = "db_delete"
    /\ Cardinality(pre.mods) = 2
    /\ Cardinality(mods) = 1
    /\ last.mod_id \in Ids(pre.mods)

\* C8: the ids db_insert has returned are pairwise different, also when
\* records were deleted in between; every stored record has one of them, no
\* two stored records share an id, and db_update and db_update_run leave the
\* set of ids as it was while db_delete only takes an id away.
C8_IdsNeverReused ==
    /\ \A i, j \in DOMAIN issued : issued[i] = issued[j] => i = j
    /\ Ids(mods) \subseteq Range(issued)
    /\ \A r1, r2 \in mods : r1.id = r2.id => r1 = r2
    /\ last.op \in {"db_update", "db_update_run"} => Ids(mods) = Ids(pre.mods)
    /\ last.op = "db_delete" => Ids(mods) = Ids(pre.mods) \ {last.mod_id}
    /\ last.op = "db_insert" =>
          /\ last.ret \notin Ids(pre.mods)
          /\ Ids(mods) = Ids(pre.mods) \cup {last.ret}

\* A create after the record with the highest id was deleted: the store was
\* empty again, and the id returned is a new one.
C8_Witness ==
    /\ last.op = "db_insert"
    /\ pre.mods = {}
    /\ pre.seq > 0
    /\ last.ret = pre.seq + 1

\* A string that is empty or all whitespace.
IsBlank(c) == \A i \in DOMAIN c : c[i] \in PyWhitespace

\* C9: in every state the CRUD calls reach, db_distinct_categories returns
\* the categories of the stored records that are not blank, each once
\* (values that differ in letter case are different values), none of them
\* blank, in case-insensitive alphabetical order.
C9_DistinctCategories ==
    \A cats \in db_distinct_categories(mods) :
        /\ Range(cats) = {r.category : r \in mods} \ {c \in {r.category : r \in mods} : IsBlank(c)}
        /\ \A i, j \in DOMAIN cats : cats[i] = cats[j] => i = j
        /\ \A i \in DOMAIN cats : ~IsBlank(cats[i])
        /\ \A i, j \in DOMAIN cats :
              i < j => ~BinaryLess(Lower(cats[j]), Lower(cats[i]))

\* Two records whose categories sort differently with and without regard to
\* case, after a record with a whitespace-only category was written.
C9_Witness ==
    /\ {r.category : r \in mods} = {<<"a">>, <<"B">>}
    /\ <<<<"a">>, <<"B">>>> \in db_distinct_categories(mods)
    /\ last.op = "db_update"
    /\ \E r \in pre.mods : r.category = <<>> /\ r \notin mods

\* C10: db_init ends with the table and all ten columns.  Started without a
\* table it leaves no rows; started from a table with the original columns
\* and any of the newer ones, every row keeps its id and its value in every
\* column it had and reads '' in every column added, and no row appears or
\* disappears.  Run on a database that already has all ten columns (a second
\* run, say) it changes nothing.
C10_MigrationPreservesAndIsIdempotent ==
    last.op = "db_init" =>
        /\ tableExists /\ columns = AllColumns
        /\ \A r \in mods : DOMAIN r = AllColumns
        /\ ~pre.tableExists => mods = {}
        /\ pre.tableExists =>
              /\ Cardinality(mods) = Cardinality(pre.mods)
              /\ seq = pre.seq
              /\ \A r \in pre.mods :
                    \E r2 \in mods :
                        /\ \A c \in pre.columns : r2[c] = r[c]
                        /\ \A c \in AllColumns \ pre.columns : r2[c] = <<>>
        /\ (pre.tableExists /\ pre.columns = AllColumns) => Db = pre
        /\ db_init(Db) = Db

\* A migration of two rows of a table with the original columns and category.
C10_Witness ==
    /\ last.op = "db_init"
    /\ pre.tableExists
    /\ pre.columns = OriginalColumns \cup {"category"}
    /\ Cardinality(pre.mods) = 2
    /\ \E r \in mods : r.category # <<>> /\ r.version = <<>>

\* C11: db_update with an id that is not in the store returns normally,
\* creates no record and leaves every stored record, and the rest of the
\* database, as it was.
C11_UpdateOfUnknownIdIsNoOp ==
    (last.op = "db_update" /\ last.mod_id \notin Ids(pre.mods)) =>
        /\ Db = pre
        /\ last.mod_id \notin Ids(mods)
        /\ Cardinality(mods) = Cardinality(pre.mods)

\* An update with an id that is not in a store that holds another record.
C11_Witness ==
    /\ last.op = "db_update"
    /\ last.mod_id \notin Ids(pre.mods)
    /\ pre.mods # {}
    /\ \A r \in pre.mods : r.name # Get(last.mod, "name", <<>>)

\* The places of a call in the calls a handler made.
Places(calls, name) == {i \in DOMAIN calls : calls[i] = name}

\* C12: run_selected calls db_update_run only after subprocess.Popen has
\* returned, and then the selected record has status "Running" and the
\* current time as last_run; when nothing is selected, bat_path is empty, the
\* file does not exist or Popen raises, db_update_run is not called and the
\* database is as it was.
C12_RunRecordedOnlyAfterSpawn ==
    last.op = "run_selected" =>
        /\ \A j \in Places(last.calls, "db_update_run") :
              /\ last.spawn = "returned"
              /\ \E i \in Places(last.calls, "Popen") : i < j
              /\ last.row.id \in Ids(mods)
              /\ \A r \in mods :
                    r.id = last.row.id =>
                        r.status = "Running" /\ r.last_run = last.now_ts
        /\ (\/ last.selected < 0
            \/ last.row.bat_path = <<>>
            \/ last.file = "missing"
            \/ last.spawn = "raised")
              => (Places(last.calls, "db_update_run") = {} /\ Db = pre)
        /\ Places(last.calls, "db_update_run") = {} => Db = pre
        /\ (last.file = "exists" /\ last.spawn = "returned")
              => Places(last.calls, "db_update_run") # {}

\* A launch whose Popen raised, of a record with a bat_path whose file exists,
\* next to a launch that was recorded before.
C12_Witness ==
    /\ last.op = "run_selected"
    /\ last.selected >= 0
    /\ last.file = "exists"
    /\ last.spawn = "raised"
    /\ last.row.status = "Ready"
    /\ \E r \in mods : r.status = "Running" /\ r.last_run > 0

\* C13: starting from an empty store, after any sequence of add_mod,
\* edit_selected, delete_selected and run_selected every record in the store
\* has a non-empty name.
C13_NoEmptyNamePersisted == \A r \in mods : r.name # <<>>

\* The window's category options are the sentinel and then a listing of the
\* distinct categories of the store.
OptionsCurrent ==
    \E cats \in db_distinct_categories(mods) : ui.options = <<AllSentinel>> \o cats

\* The selected table row is a row of the snapshot and its id is in the store.
SelectionExists ==
    ui.selected >= 0 =>
        /\ ui.selected < Len(ui.rows)
        /\ SelectedRow(ui).id \in Ids(mods)

\* C14 as stated: after every completed UI action MainWindow.rows is
\* db_fetch_all of the current store with the current search text and the
\* current category selection, the category options are the sentinel followed
\* by db_distinct_categories() of the current store, and the selected row's id
\* is in the store.
C14_SnapshotOfSearchText ==
    /\ ui.rows \in db_fetch_all(mods,
                                IF ui.search # <<>> THEN ui.search ELSE None,
                                current_category_filter(ui))
    /\ OptionsCurrent
    /\ SelectionExists

\* C14 amended: after every completed UI action MainWindow.rows is
\* db_fetch_all of the current store with the search text stripped of
\* surrounding whitespace (no name filter when nothing is left) and the
\* current category selection; the category options are the sentinel followed
\* by db_distinct_categories() of the current store; the selected row's id is
\* in the store.
C14_SnapshotOfStrippedSearchText ==
    /\ ui.rows \in db_fetch_all(mods, NameQuery(ui), current_category_filter(ui))
    /\ OptionsCurrent
    /\ SelectionExists

\* A record deleted while a search text that ends in a space was in force:
\* the snapshot lists the record that is left, which the text as typed does
\* not match.
C14_Witness ==
    /\ last.op = "delete_selected"
    /\ last.calls # <<>>
    /\ ui.search # Strip(ui.search)
    /\ ui.rows # <<>>
    /\ Selected(mods, ui.search, current_category_filter(ui)) = {}

=============================================================================
